---- MODULE Spec2Model ----
(***************************************************************************)
(* Model of app/rdd2/src/casadi/rdd2.py: the control laws of the rdd2      *)
(* multirotor controller and the driver that registers them and hands them *)
(* to the code generator.                                                  *)
(*                                                                         *)
(* Real numbers are exact rationals <<n, d>> (d > 0, lowest terms).  A     *)
(* 2-norm is the exact rational square root; the inputs of the position    *)
(* law are drawn from the vectors whose norms are rational.                *)
(***************************************************************************)
EXTENDS Integers, Sequences, FiniteSets, TLC

VARIABLES
  \* a call of saturate
  sat_pc,        \* "call" before the call, "done" after it
  sat_x,         \* the vector object passed as x (saturate writes into it)
  sat_arg,       \* the value x had when the call was made
  sat_x_min,
  sat_x_max,
  sat_y,         \* the returned vector
  \* the caller's control loop around attitude_rate_control
  omega,         \* measured angular velocity
  omega_r,       \* angular velocity set point
  omega_i,       \* the integral state the caller persists
  omega_i_prev,  \* the omega_i passed to the last call
  dt,
  M,             \* the moment returned by the last call
  ticks,         \* calls made so far
  \* the driver: __main__ and generate_code
  drv_pc,        \* the statement the run is at; "complete" or "failed" at its end
  eqs,           \* the registry: a dict, kept in insertion order
  log,           \* every registration made so far, in order
  kwargs,        \* the option names passed to generate_code
  dir_exists,    \* the destination directory is on disk
  dir_created,   \* ... and this run created it
  added,         \* the functions given to the code generator
  artifacts,     \* the files this run has written
  failed_at,     \* the step that raised, "none" while none has
  \* the two stick mappers called on the same stick input
  joy_roll, joy_pitch, joy_yaw, joy_thrust,
  joy_q,         \* current orientation
  auto_level,    \* what joy_auto_level computed, << >> before the call
  position_hold, \* what joy_position computed, << >> before the call
  \* a call of position_control
  pos_pc,        \* "call" before the call, "done" after it
  pos_in,        \* the inputs pt_w, vt_w, at_w, qc_wb, p_w, v_b, q_wb
  pos_out        \* what the call computed, << >> before the call

satVars == << sat_pc, sat_x, sat_arg, sat_x_min, sat_x_max, sat_y >>
rateVars == << omega, omega_r, omega_i, omega_i_prev, dt, M, ticks >>
drvVars == << drv_pc, eqs, log, kwargs, dir_exists, dir_created, added, artifacts,
             failed_at >>
joyVars == << joy_roll, joy_pitch, joy_yaw, joy_thrust, joy_q, auto_level, position_hold >>
posVars == << pos_pc, pos_in, pos_out >>
vars == << satVars, rateVars, drvVars, joyVars, posVars >>
notSatVars == << rateVars, drvVars, joyVars, posVars >>
notRateVars == << satVars, drvVars, joyVars, posVars >>
notDrvVars == << satVars, rateVars, joyVars, posVars >>
notJoyVars == << satVars, rateVars, drvVars, posVars >>
notPosVars == << satVars, rateVars, drvVars, joyVars >>

(***************************************************************************)
(* Exact rational arithmetic                                               *)
(***************************************************************************)
Abs(n) == IF n < 0 THEN -n ELSE n

RECURSIVE GCD(_, _)
GCD(a, b) == IF b = 0 THEN a ELSE GCD(b, a % b)

\* n/d in lowest terms with a positive denominator (d # 0)
Rat(n, d) ==
  LET g == GCD(Abs(n), Abs(d))
      s == IF d < 0 THEN -1 ELSE 1
  IN  << (s * n) \div g, (s * d) \div g >>

Int2R(n) == << n, 1 >>
Zero == Int2R(0)
One == Int2R(1)

\* a + b over the least common denominator
RAdd(a, b) ==
  LET g == GCD(a[2], b[2])
  IN  Rat(a[1] * (b[2] \div g) + b[1] * (a[2] \div g), (a[2] \div g) * b[2])
RNeg(a) == << -a[1], a[2] >>
RSub(a, b) == RAdd(a, RNeg(b))
RMul(a, b) == Rat(a[1] * b[1], a[2] * b[2])
RDiv(a, b) == Rat(a[1] * b[2], a[2] * b[1])
RLt(a, b) == a[1] * b[2] < b[1] * a[2]
RGt(a, b) == RLt(b, a)
RLe(a, b) == ~RLt(b, a)
RAbs(a) == << Abs(a[1]), a[2] >>

\* largest r with r*r <= n, by bisection on lo <= r < hi
RECURSIVE ISqrtIter(_, _, _)
ISqrtIter(n, lo, hi) ==
  IF hi - lo <= 1 THEN lo
  ELSE LET mid == (lo + hi) \div 2
       IN  IF mid * mid <= n THEN ISqrtIter(n, mid, hi) ELSE ISqrtIter(n, lo, mid)

ISqrt(n) == ISqrtIter(n, 0, n + 1)
IsSquare(a) == /\ a[1] >= 0
               /\ ISqrt(a[1]) * ISqrt(a[1]) = a[1]
               /\ ISqrt(a[2]) * ISqrt(a[2]) = a[2]
\* the square root of a rational square
RSqrt(a) == << ISqrt(a[1]), ISqrt(a[2]) >>

(***************************************************************************)
(* Vectors are sequences of rationals                                      *)
(***************************************************************************)
Vec(a, b, c) == << Int2R(a), Int2R(b), Int2R(c) >>
VAdd(u, v) == [i \in DOMAIN u |-> RAdd(u[i], v[i])]
VSub(u, v) == [i \in DOMAIN u |-> RSub(u[i], v[i])]
VNeg(u) == [i \in DOMAIN u |-> RNeg(u[i])]
\* elementwise product of two vectors (the SX operator * on two columns)
VMul(u, v) == [i \in DOMAIN u |-> RMul(u[i], v[i])]
VScale(k, u) == [i \in DOMAIN u |-> RMul(k, u[i])]
VDivS(u, k) == [i \in DOMAIN u |-> RDiv(u[i], k)]

RECURSIVE SumSq(_, _)
SumSq(u, i) == IF i = 0 THEN Zero ELSE RAdd(SumSq(u, i - 1), RMul(u[i], u[i]))
Norm2Sq(u) == SumSq(u, Len(u))
\* ca.norm_2
norm_2(u) == RSqrt(Norm2Sq(u))
\* ca.cross
cross(u, v) == << RSub(RMul(u[2], v[3]), RMul(u[3], v[2])),
                  RSub(RMul(u[3], v[1]), RMul(u[1], v[3])),
                  RSub(RMul(u[1], v[2]), RMul(u[2], v[1])) >>

\* ca.if_else(c, a, b): selects one value; the value of the branch that is
\* not selected (a 0/0 included) never reaches the result
if_else(c, a, b) == IF c THEN a ELSE b

(***************************************************************************)
(* saturate                                                                *)
(***************************************************************************)
\* one pass of the loop body: y[i] = if_else(x[i] > x_max[i], x_max[i],
\*                                    if_else(x[i] < x_min[i], x_min[i], x[i]))
\* y is the same object as x, so the element read is y[i]
SaturateElemNoLower(y, x_min, x_max, i) ==
  [y EXCEPT ![i] = if_else(RGt(y[i], x_max[i]), x_max[i], y[i])]

SaturateElemLowerFirst(y, x_min, x_max, i) ==
  [y EXCEPT ![i] = if_else(RLt(y[i], x_min[i]), x_min[i],
                           if_else(RGt(y[i], x_max[i]), x_max[i], y[i]))]

SaturateElem(y, x_min, x_max, i) ==
  [y EXCEPT ![i] = if_else(RGt(y[i], x_max[i]), x_max[i],
                           if_else(RLt(y[i], x_min[i]), x_min[i], y[i]))]

\* for i in range(x.shape[0]), the first n passes
RECURSIVE SaturateLoop(_, _, _, _)
SaturateLoop(y, x_min, x_max, n) ==
  IF n = 0 THEN y
  ELSE SaturateElem(SaturateLoop(y, x_min, x_max, n - 1), x_min, x_max, n)

saturate(x, x_min, x_max) == SaturateLoop(x, x_min, x_max, Len(x))

(***************************************************************************)
(* Parameters                                                              *)
(***************************************************************************)
kp_rollpitch_rate == Rat(15, 1000)
ki_rollpitch_rate == Rat(5, 100)
kp_yaw_rate == Rat(1, 10)
ki_yaw_rate == Rat(2, 100)
rollpitch_rate_integral_max == 1
yaw_rate_integral_max == 1
thrust_delta == Rat(1, 10)
thrust_trim == Rat(5, 10)
\* np.pi/180, with pi taken as 355/113
deg2rad == Rat(355, 113 * 180)
g == Rat(98, 10)
kp_pos == Rat(2, 10)
kp_vel == 1
yaw_rate_max == 60
rollpitch_max == 20

(***************************************************************************)
(* attitude_rate_control                                                   *)
(***************************************************************************)
kp_rate == << kp_rollpitch_rate, kp_rollpitch_rate, kp_yaw_rate >>
ki_rate == << ki_rollpitch_rate, ki_rollpitch_rate, ki_yaw_rate >>
integral_max == Vec(rollpitch_rate_integral_max, rollpitch_rate_integral_max,
                    yaw_rate_integral_max)

\* the integral is not clamped at all
attitude_rate_control_unclamped(w, w_r, w_i, h) ==
  LET omega_e == VSub(w_r, w)
      omega_i_2 == VAdd(w_i, VScale(h, omega_e))
  IN  [M |-> VAdd(VMul(kp_rate, omega_e), VMul(ki_rate, omega_i_2)),
       omega_i_update |-> omega_i_2]

\* the clamp is applied after the integral has contributed to M
attitude_rate_control_late(w, w_r, w_i, h) ==
  LET omega_e == VSub(w_r, w)
      omega_i_2 == VAdd(w_i, VScale(h, omega_e))
  IN  [M |-> VAdd(VMul(kp_rate, omega_e), VMul(ki_rate, omega_i_2)),
       omega_i_update |-> saturate(omega_i_2, VNeg(integral_max), integral_max)]

attitude_rate_control(w, w_r, w_i, h) ==
  LET omega_e == VSub(w_r, w)
      omega_i_1 == VAdd(w_i, VScale(h, omega_e))
      omega_i_2 == saturate(omega_i_1, VNeg(integral_max), integral_max)
  IN  [M |-> VAdd(VMul(kp_rate, omega_e), VMul(ki_rate, omega_i_2)),
       omega_i_update |-> omega_i_2]

(***************************************************************************)
(* Orientations.  The rotation-group library is outside this repository:   *)
(* an orientation is carried as the body-321 Euler triple <<yaw, pitch,    *)
(* roll>> it stands for, tagged with the representation it is held in.     *)
(***************************************************************************)
\* SO3EulerB321.from_Quat(q).param
SO3EulerB321_from_Quat(q) == q.euler
\* SO3Quat.from_Euler(e).param
SO3Quat_from_Euler(e) == [rep |-> "quat", euler |-> e]

(***************************************************************************)
(* joy_auto_level and joy_position                                         *)
(***************************************************************************)
joy_auto_level(j_roll, j_pitch, j_yaw, j_thrust, q) ==
  LET euler == SO3EulerB321_from_Quat(q)
      yaw == euler[1]
      euler_r == << RAdd(yaw, RMul(RMul(Int2R(yaw_rate_max), deg2rad), j_yaw)),
                    RMul(RMul(Int2R(rollpitch_max), deg2rad), j_pitch),
                    RMul(RMul(Int2R(-rollpitch_max), deg2rad), j_roll) >>
  IN  [euler_r |-> euler_r,
       q_r |-> SO3Quat_from_Euler(euler_r),
       thrust |-> RAdd(RMul(j_thrust, thrust_delta), thrust_trim)]

joy_position(j_roll, j_pitch, j_yaw, j_thrust, q) ==
  LET euler == SO3EulerB321_from_Quat(q)
      yaw == euler[1]
      euler_r == << RAdd(yaw, RMul(Int2R(yaw_rate_max), j_yaw)),
                    RMul(Int2R(rollpitch_max), j_pitch),
                    RMul(Int2R(-rollpitch_max), j_roll) >>
  IN  [euler_r |-> euler_r,
       q_r |-> SO3Quat_from_Euler(euler_r),
       thrust |-> RAdd(RMul(j_thrust, thrust_delta), thrust_trim)]

(***************************************************************************)
(* position_control                                                        *)
(***************************************************************************)
\* an angle whose cosine and sine are rational is carried as that pair
ca_cos(a) == a.cos
ca_sin(a) == a.sin

\* SO3Quat.to_Matrix of the unit quaternion q = <<w, x, y, z>>, by rows
SO3Quat_to_Matrix(q) ==
  LET w == q[1]
      x == q[2]
      y == q[3]
      z == q[4]
      two == Int2R(2)
  IN  << << RSub(One, RMul(two, RAdd(RMul(y, y), RMul(z, z)))),
            RMul(two, RSub(RMul(x, y), RMul(w, z))),
            RMul(two, RAdd(RMul(x, z), RMul(w, y))) >>,
         << RMul(two, RAdd(RMul(x, y), RMul(w, z))),
            RSub(One, RMul(two, RAdd(RMul(x, x), RMul(z, z)))),
            RMul(two, RSub(RMul(y, z), RMul(w, x))) >>,
         << RMul(two, RSub(RMul(x, z), RMul(w, y))),
            RMul(two, RAdd(RMul(y, z), RMul(w, x))),
            RSub(One, RMul(two, RAdd(RMul(x, x), RMul(y, y)))) >> >>

Dot(u, v) == RAdd(RAdd(RMul(u[1], v[1]), RMul(u[2], v[2])), RMul(u[3], v[3]))
\* R @ v
MatVec(R, v) == << Dot(R[1], v), Dot(R[2], v), Dot(R[3], v) >>
\* SO3Quat.from_Matrix(R).param, R given by its columns
SO3Quat_from_Matrix(cols) == [rep |-> "quat", matrix |-> cols]

xW == Vec(1, 0, 0)
zW == Vec(0, 0, 1)
p_norm_max_trim == Rat(5, 10)
p_norm_max == Rat(3, 10)
\* trim throttle
T0 == VDivS(zW, Int2R(2))

\* the body velocity is used as if it were the world velocity
world_velocity_unrotated(q, v_b) == v_b
\* v_w = R_wb @ v_b
world_velocity(q, v_b) == MatVec(SO3Quat_to_Matrix(q), v_b)

\* p_term before the clamp
thrust_term(in) ==
  LET v_w == world_velocity(in.q_wb, in.v_b)
      e_p == VSub(in.p_w, in.pt_w)
      e_v == VSub(v_w, in.vt_w)
      two_g == RMul(Int2R(2), g)
  IN  VAdd(VSub(VDivS(VScale(RNeg(kp_pos), e_p), two_g),
                VDivS(VScale(Int2R(kp_vel), e_v), two_g)),
           VDivS(in.at_w, two_g))

\* the rescaling leaves out the factor p_norm_max
clamp_thrust_term_unit(p_term) ==
  LET p_norm == norm_2(p_term)
  IN  if_else(RGt(p_norm, p_norm_max), VDivS(p_term, p_norm), p_term)

\* p_term = if_else(p_norm > p_norm_max, p_norm_max*p_term/p_norm, p_term)
clamp_thrust_term(p_term) ==
  LET p_norm == norm_2(p_term)
  IN  if_else(RGt(p_norm, p_norm_max),
              VDivS(VScale(p_norm_max, p_term), p_norm),
              p_term)

\* body up is aligned with thrust
body_up(T) ==
  LET nT == norm_2(T)
  IN  if_else(RGt(nT, Rat(1, 1000)), VDivS(T, nT), zW)

camera_heading(qc_wb) ==
  LET ec == SO3EulerB321_from_Quat(qc_wb)
      yt == ec[1]
  IN  << ca_cos(yt), ca_sin(yt), Zero >>

position_control(in) ==
  LET p_raw == thrust_term(in)
      p_term == clamp_thrust_term(p_raw)
      T == VAdd(p_term, T0)
      nT == norm_2(T)
      zB == body_up(T)
      xC == camera_heading(in.qc_wb)
      yB_1 == cross(zB, xC)
      nyB == norm_2(yB_1)
      yB == if_else(RGt(nyB, Rat(1, 1000)), VDivS(yB_1, nyB), xW)
      xB == cross(yB, zB)
      Rd_wb == << xB, yB, zB >>
  IN  [nT |-> nT,
       qr_wb |-> SO3Quat_from_Matrix(Rd_wb),
       \* the intermediate values of the derivation
       p_raw |-> p_raw, p_term |-> p_term, T |-> T,
       zB_fallback |-> ~RGt(nT, Rat(1, 1000)),
       xB |-> xB, yB |-> yB, zB |-> zB]

(***************************************************************************)
(* Specification SpecSat: one call of saturate on any vectors              *)
(***************************************************************************)
SatLen == 2
SatVals == { Int2R(-1), Int2R(0), Int2R(2) }
SatVecs == [1..SatLen -> SatVals]

SatIdle ==
  /\ sat_pc = "idle" /\ sat_x = << >> /\ sat_arg = << >>
  /\ sat_x_min = << >> /\ sat_x_max = << >> /\ sat_y = << >>

RateIdle ==
  /\ omega = << >> /\ omega_r = << >> /\ omega_i = << >> /\ omega_i_prev = << >>
  /\ dt = Zero /\ M = << >> /\ ticks = 0

DrvIdle ==
  /\ drv_pc = "idle" /\ eqs = << >> /\ log = << >> /\ kwargs = {}
  /\ dir_exists = FALSE /\ dir_created = FALSE /\ added = << >>
  /\ artifacts = {} /\ failed_at = "none"

JoyIdle ==
  /\ joy_roll = Zero /\ joy_pitch = Zero /\ joy_yaw = Zero /\ joy_thrust = Zero
  /\ joy_q = << >> /\ auto_level = << >> /\ position_hold = << >>

PosIdle == pos_pc = "idle" /\ pos_in = << >> /\ pos_out = << >>

SatInit ==
  /\ sat_pc = "call"
  /\ sat_x \in SatVecs
  /\ sat_arg = sat_x
  /\ sat_x_min \in SatVecs
  /\ sat_x_max \in SatVecs
  /\ sat_y = << >>
  /\ RateIdle
  /\ DrvIdle
  /\ JoyIdle
  /\ PosIdle

\* y = saturate(x, x_min, x_max); the result is the object x itself
SaturateCall ==
  /\ sat_pc = "call"
  /\ sat_y' = saturate(sat_x, sat_x_min, sat_x_max)
  /\ sat_x' = sat_y'
  /\ sat_pc' = "done"
  /\ UNCHANGED << sat_arg, sat_x_min, sat_x_max, notSatVars >>

SatNext == SaturateCall
SpecSat == SatInit /\ [][SatNext]_vars

(***************************************************************************)
(* Specification SpecRate: the caller iterates attitude_rate_control with  *)
(* a constant rate error and a fixed dt, feeding omega_i_update back       *)
(***************************************************************************)
MaxTicks == 3
RateOmegas == { Vec(0, 0, 0), Vec(1, -2, 0) }
RateSetpoints == { Vec(0, 0, 0), Vec(3, 0, -1), Vec(1, -2, 4) }
RateIntegrals == { Vec(0, 0, 0), Vec(5, -5, 1), << Rat(99, 100), Rat(-1, 2), Int2R(-1) >> }
RateDts == { Zero, Rat(1, 100), Rat(1, 2), Int2R(2), Rat(-1, 2) }

RateInit ==
  /\ omega \in RateOmegas
  /\ omega_r \in RateSetpoints
  /\ omega_i \in RateIntegrals
  /\ omega_i_prev = omega_i
  /\ dt \in RateDts
  /\ M = << >>
  /\ ticks = 0
  /\ SatIdle
  /\ DrvIdle
  /\ JoyIdle
  /\ PosIdle

\* one control tick: M, omega_i = attitude_rate_control(omega, omega_r, omega_i, dt)
RateTick ==
  /\ ticks < MaxTicks
  /\ LET out == attitude_rate_control(omega, omega_r, omega_i, dt)
     IN  /\ M' = out.M
         /\ omega_i' = out.omega_i_update
  /\ omega_i_prev' = omega_i
  /\ ticks' = ticks + 1
  /\ UNCHANGED << omega, omega_r, dt, notRateVars >>

RateNext == RateTick
SpecRate == RateInit /\ [][RateNext]_vars

(***************************************************************************)
(* Specification SpecDriver: the registry and generate_code.  The laws are *)
(* registered one after the other, each under the name its derive function *)
(* returns; any step may raise, which ends the run.                        *)
(***************************************************************************)
MaxLaws == 4
LawNames == { "attitude_rate_control", "attitude_control", "position_control" }
\* the keys of the option dict p of generate_code
KnownOptions == { "verbose", "mex", "cpp", "main", "with_header", "with_mem",
                  "with_export", "with_import", "include_math", "avoid_stack" }
KwargsChoices == { {}, { "mex" }, { "with_headers" } }
GeneratedFiles == { "rdd2.c", "rdd2.h" }

HasKey(d, k) == \E i \in 1..Len(d) : d[i].name = k

\* a registry that keeps the entry it already has
dict_update_keep(d, k, v) ==
  IF HasKey(d, k) THEN d ELSE Append(d, [name |-> k, eq |-> v])

\* dict.update({k: v}): an existing key keeps its place and takes the new
\* value, a new key goes to the end
dict_update(d, k, v) ==
  IF HasKey(d, k)
  THEN [i \in 1..Len(d) |-> IF d[i].name = k THEN [name |-> k, eq |-> v] ELSE d[i]]
  ELSE Append(d, [name |-> k, eq |-> v])

\* the directory is left as it was
mkdir_skipped(exists) == exists

\* dest_dir.mkdir(exist_ok=True), when it does not raise: whether the
\* directory exists afterwards
mkdir(exists) == TRUE

DrvInit ==
  /\ drv_pc = "derive"
  /\ eqs = << >>
  /\ log = << >>
  /\ kwargs \in KwargsChoices
  /\ dir_exists \in BOOLEAN
  /\ dir_created = FALSE
  /\ added = << >>
  /\ artifacts = {}
  /\ failed_at = "none"
  /\ SatIdle
  /\ RateIdle
  /\ JoyIdle
  /\ PosIdle

Raise(step) ==
  /\ drv_pc' = "failed"
  /\ failed_at' = step

\* eqs.update(derive_...()): the function derived by the n-th call is n
Register(name) ==
  /\ drv_pc = "derive"
  /\ Len(log) < MaxLaws
  /\ eqs' = dict_update(eqs, name, Len(log) + 1)
  /\ log' = Append(log, [name |-> name, eq |-> Len(log) + 1])
  /\ UNCHANGED << drv_pc, kwargs, dir_exists, dir_created, added, artifacts, failed_at, notDrvVars >>

\* a derive function raises
DeriveFails ==
  /\ drv_pc = "derive"
  /\ Len(log) < MaxLaws
  /\ Raise("derive")
  /\ UNCHANGED << eqs, log, kwargs, dir_exists, dir_created, added, artifacts, notDrvVars >>

\* all laws are registered: the names are printed and generate_code is called
CallGenerateCode ==
  /\ drv_pc = "derive"
  /\ Len(log) >= 1
  /\ drv_pc' = "mkdir"
  /\ UNCHANGED << eqs, log, kwargs, dir_exists, dir_created, added, artifacts, failed_at, notDrvVars >>

Mkdir ==
  /\ drv_pc = "mkdir"
  /\ dir_exists' = mkdir(dir_exists)
  /\ dir_created' = (~dir_exists /\ dir_exists')
  /\ drv_pc' = "options"
  /\ UNCHANGED << eqs, log, kwargs, added, artifacts, failed_at, notDrvVars >>

\* mkdir raises (the parent is missing or not writable)
MkdirFails ==
  /\ drv_pc = "mkdir"
  /\ ~dir_exists
  /\ Raise("mkdir")
  /\ UNCHANGED << eqs, log, kwargs, dir_exists, dir_created, added, artifacts, notDrvVars >>

\* for k, v in kwargs.items(): assert k in p.keys()
OptionsAccepted ==
  /\ drv_pc = "options"
  /\ kwargs \subseteq KnownOptions
  /\ drv_pc' = "codegen"
  /\ UNCHANGED << eqs, log, kwargs, dir_exists, dir_created, added, artifacts, failed_at, notDrvVars >>

OptionRejected ==
  /\ drv_pc = "options"
  /\ ~(kwargs \subseteq KnownOptions)
  /\ Raise("options")
  /\ UNCHANGED << eqs, log, kwargs, dir_exists, dir_created, added, artifacts, notDrvVars >>

\* gen = ca.CodeGenerator(filename, p); for name, eq in eqs.items(): gen.add(eq)
AddFunctions ==
  /\ drv_pc = "codegen"
  /\ added' = [i \in 1..Len(eqs) |-> eqs[i].eq]
  /\ drv_pc' = "generate"
  /\ UNCHANGED << eqs, log, kwargs, dir_exists, dir_created, artifacts, failed_at, notDrvVars >>

\* gen.generate(str(dest_dir) + os.sep)
Generate ==
  /\ drv_pc = "generate"
  /\ artifacts' = GeneratedFiles
  /\ drv_pc' = "complete"
  /\ UNCHANGED << eqs, log, kwargs, dir_exists, dir_created, added, failed_at, notDrvVars >>

\* the generator raises, before or after it has written a file
GenerateFails ==
  /\ drv_pc = "generate"
  /\ artifacts' \in { {}, { "rdd2.c" } }
  /\ Raise("generate")
  /\ UNCHANGED << eqs, log, kwargs, dir_exists, dir_created, added, notDrvVars >>

DrvNext ==
  \/ \E name \in LawNames : Register(name)
  \/ DeriveFails
  \/ CallGenerateCode
  \/ Mkdir
  \/ MkdirFails
  \/ OptionsAccepted
  \/ OptionRejected
  \/ AddFunctions
  \/ Generate
  \/ GenerateFails

SpecDriver == DrvInit /\ [][DrvNext]_vars

(***************************************************************************)
(* Specification SpecJoy: both stick mappers are called on one stick input *)
(* and one current orientation                                             *)
(***************************************************************************)
JoyAxis == { Int2R(-1), Zero, Rat(1, 2), One }
JoyOrientations ==
  { [rep |-> "quat", euler |-> e] :
      e \in { << Zero, Zero, Zero >>,
              << Rat(1, 2), Zero, Zero >>,
              << Int2R(-1), Rat(1, 10), Rat(-1, 10) >> } }

JoyInit ==
  /\ joy_roll \in JoyAxis
  /\ joy_pitch \in JoyAxis
  /\ joy_yaw \in JoyAxis
  /\ joy_thrust \in { Zero, One }
  /\ joy_q \in JoyOrientations
  /\ auto_level = << >>
  /\ position_hold = << >>
  /\ SatIdle
  /\ RateIdle
  /\ DrvIdle
  /\ PosIdle

CallJoyAutoLevel ==
  /\ auto_level = << >>
  /\ auto_level' = joy_auto_level(joy_roll, joy_pitch, joy_yaw, joy_thrust, joy_q)
  /\ UNCHANGED << joy_roll, joy_pitch, joy_yaw, joy_thrust, joy_q, position_hold,
                  notJoyVars >>

CallJoyPosition ==
  /\ position_hold = << >>
  /\ position_hold' = joy_position(joy_roll, joy_pitch, joy_yaw, joy_thrust, joy_q)
  /\ UNCHANGED << joy_roll, joy_pitch, joy_yaw, joy_thrust, joy_q, auto_level,
                  notJoyVars >>

JoyNext == CallJoyAutoLevel \/ CallJoyPosition
SpecJoy == JoyInit /\ [][JoyNext]_vars

(***************************************************************************)
(* Specification SpecPos: one call of position_control.  The inputs are    *)
(* the combinations of the vectors below for which the three norms the law *)
(* takes are rational.                                                     *)
(***************************************************************************)
PosSetpoints == { Vec(0, 0, 0), << Zero, Zero, Rat(49, 5) >>, Vec(0, 0, -49) }
PosPositions == { Vec(0, 0, 0), << Zero, Zero, Rat(49, 5) >> }
PosVelSetpoints == { Vec(0, 0, 0), << Zero, Zero, Rat(-49, 25) >>, << Zero, Zero, Rat(49, 25) >> }
PosBodyVelocities == { Vec(0, 0, 0), << Zero, Zero, Rat(49, 25) >> }
PosAccelerations ==
  { Vec(0, 0, 0),
    << Zero, Zero, Rat(-49, 5) >>,
    << Rat(84, 25), Zero, Zero >>,
    << Rat(588, 125), Zero, Rat(-441, 125) >>,
    << Rat(392, 25), Zero, Rat(-294, 25) >> }
\* identity, and half a turn about the body x axis
PosOrientations == { << One, Zero, Zero, Zero >>, << Zero, One, Zero, Zero >> }
PosCameraYaws ==
  { [cos |-> One, sin |-> Zero], [cos |-> Zero, sin |-> One],
    [cos |-> Rat(3, 5), sin |-> Rat(4, 5)], [cos |-> Int2R(-1), sin |-> Zero] }
PosCameras == { [rep |-> "quat", euler |-> << a, Zero, Zero >>] : a \in PosCameraYaws }

PosCandidates ==
  [pt_w : PosSetpoints, vt_w : PosVelSetpoints, at_w : PosAccelerations,
   qc_wb : PosCameras, p_w : PosPositions, v_b : PosBodyVelocities,
   q_wb : PosOrientations]

\* the arguments of the three norm_2 calls are squares of rationals
NormsRational(in) ==
  LET p_raw == thrust_term(in)
      T == VAdd(clamp_thrust_term(p_raw), T0)
  IN  /\ IsSquare(Norm2Sq(p_raw))
      /\ IsSquare(Norm2Sq(T))
      /\ IsSquare(Norm2Sq(cross(body_up(T), camera_heading(in.qc_wb))))

PosInputs == { in \in PosCandidates : NormsRational(in) }

PosInit ==
  /\ pos_pc = "call"
  /\ pos_in \in PosInputs
  /\ pos_out = << >>
  /\ SatIdle
  /\ RateIdle
  /\ DrvIdle
  /\ JoyIdle

CallPositionControl ==
  /\ pos_pc = "call"
  /\ pos_out' = position_control(pos_in)
  /\ pos_pc' = "done"
  /\ UNCHANGED << pos_in, notPosVars >>

PosNext == CallPositionControl
SpecPos == PosInit /\ [][PosNext]_vars

(***************************************************************************)
(* Properties of saturate (SpecSat)                                        *)
(***************************************************************************)
SatIndices == 1..Len(sat_arg)
SatBoundsOrdered == \A i \in SatIndices : RLe(sat_x_min[i], sat_x_max[i])
SatInRange(i) == RLe(sat_x_min[i], sat_arg[i]) /\ RLe(sat_arg[i], sat_x_max[i])

\* C2: with lower[i] <= upper[i] for all i, every element of the result of
\* saturate lies in [lower[i], upper[i]], equals x[i] when x[i] is already in
\* that range, and is what saturate returns for the one-element vectors made
\* of the same-index elements of x, lower and upper.
C2_SaturateClamps ==
  (sat_pc = "done" /\ SatBoundsOrdered) =>
    \A i \in SatIndices :
      /\ RLe(sat_x_min[i], sat_y[i])
      /\ RLe(sat_y[i], sat_x_max[i])
      /\ (SatInRange(i) => sat_y[i] = sat_arg[i])
      /\ sat_y[i] = saturate(<< sat_arg[i] >>, << sat_x_min[i] >>, << sat_x_max[i] >>)[1]

\* a call with ordered bounds that clamps one element from below, clamps one
\* from above or leaves one alone
C2_Witness ==
  /\ sat_pc = "done"
  /\ SatBoundsOrdered
  /\ \E i \in SatIndices : RLt(sat_arg[i], sat_x_min[i]) /\ sat_y[i] = sat_x_min[i]
  /\ \E i \in SatIndices : SatInRange(i) /\ RLt(sat_x_min[i], sat_x_max[i])

\* C8 as stated: with lower[i] > upper[i], element i of the result is
\* lower[i] for every value of x[i].
C8_ClampsToLower ==
  sat_pc = "done" =>
    \A i \in SatIndices :
      RGt(sat_x_min[i], sat_x_max[i]) => sat_y[i] = sat_x_min[i]

\* C8 amended: with lower[i] > upper[i], element i of the result is upper[i]
\* when x[i] > upper[i] and lower[i] otherwise.
C8_ViolatedBounds ==
  sat_pc = "done" =>
    \A i \in SatIndices :
      RGt(sat_x_min[i], sat_x_max[i]) =>
        sat_y[i] = IF RGt(sat_arg[i], sat_x_max[i]) THEN sat_x_max[i] ELSE sat_x_min[i]

\* a call with lower[i] > upper[i] and upper[i] < x[i] < lower[i]
C8_Witness ==
  /\ sat_pc = "done"
  /\ \E i \in SatIndices :
       /\ RGt(sat_x_min[i], sat_x_max[i])
       /\ RGt(sat_arg[i], sat_x_max[i])
       /\ RLt(sat_arg[i], sat_x_min[i])
       /\ sat_y[i] = sat_x_max[i]

(***************************************************************************)
(* Properties of attitude_rate_control (SpecRate)                          *)
(***************************************************************************)
RMin(a, b) == IF RLt(a, b) THEN a ELSE b
RMax(a, b) == IF RLt(a, b) THEN b ELSE a
RateAxes == 1..3
\* the error and the unclamped integral of the last tick
RateError == VSub(omega_r, omega)
RateRawIntegral == VAdd(omega_i_prev, VScale(dt, RateError))

\* C1: with a constant rate error and a fixed dt, after every tick each
\* component of the integral the law returns lies in [-bound, +bound],
\* whatever integral the caller started from.
C1_IntegralBounded ==
  ticks >= 1 =>
    \A i \in RateAxes :
      /\ RLe(RNeg(integral_max[i]), omega_i[i])
      /\ RLe(omega_i[i], integral_max[i])

\* the caller started outside the bound, the error keeps pushing outwards
\* and after several ticks the integral sits on the bound
C1_Witness ==
  /\ ticks >= 2
  /\ \E i \in RateAxes :
       /\ RGt(RateRawIntegral[i], integral_max[i])
       /\ RGt(RMul(dt, RateError[i]), Zero)
       /\ omega_i[i] = integral_max[i]

\* C3: M = Kp*e + Ki*omega_i_update, where omega_i_update is the returned
\* integral and is omega_i + e*dt clamped to [-bound, +bound]; the integral
\* part of M is at most Ki*bound in magnitude; all-zero inputs give M = 0
\* and omega_i_update = 0.
C3_ClampBeforeMoment ==
  ticks >= 1 =>
    /\ \A i \in RateAxes :
         /\ omega_i[i] = RMax(RNeg(integral_max[i]),
                               RMin(integral_max[i], RateRawIntegral[i]))
         /\ M[i] = RAdd(RMul(kp_rate[i], RateError[i]), RMul(ki_rate[i], omega_i[i]))
         /\ RLe(RAbs(RSub(M[i], RMul(kp_rate[i], RateError[i]))),
                 RMul(ki_rate[i], integral_max[i]))
    /\ (omega = Vec(0, 0, 0) /\ omega_r = Vec(0, 0, 0) /\ omega_i_prev = Vec(0, 0, 0))
         => (M = Vec(0, 0, 0) /\ omega_i = Vec(0, 0, 0))

\* a tick whose unclamped integral is outside the bound while M is non-zero
C3_Witness ==
  /\ ticks >= 1
  /\ \E i \in RateAxes :
       /\ RLt(RateRawIntegral[i], RNeg(integral_max[i]))
       /\ omega_i[i] = RNeg(integral_max[i])
       /\ M[i] # Zero

(***************************************************************************)
(* Properties of the registry and of generate_code (SpecDriver)            *)
(***************************************************************************)
DuplicateRegistered ==
  \E i, j \in 1..Len(log) : i < j /\ log[i].name = log[j].name
\* the function of the last registration made under name n
LastRegistered(n) ==
  LET last == CHOOSE j \in 1..Len(log) :
                /\ log[j].name = n
                /\ \A k \in 1..Len(log) : log[k].name = n => k <= j
  IN  log[last].eq

\* C4 as stated: registering a law under a name the registry already holds
\* is fatal at registration time, so a run in which a duplicate was
\* registered has failed (no entry is replaced, code generation is not
\* reached).
C4_DuplicateIsFatal ==
  DuplicateRegistered => drv_pc = "failed"

\* C4 amended: registering under a name already present raises nothing and
\* replaces the entry: the registry holds one entry per registered name, the
\* function of the last registration under that name, and those are the
\* functions handed to the code generator.
C4_LastRegistrationWins ==
  /\ \A i \in 1..Len(log) :
       \E k \in 1..Len(eqs) :
         eqs[k].name = log[i].name /\ eqs[k].eq = LastRegistered(log[i].name)
  /\ \A k, l \in 1..Len(eqs) : eqs[k].name = eqs[l].name => k = l
  /\ drv_pc \in { "generate", "complete" } =>
       added = [k \in 1..Len(eqs) |-> eqs[k].eq]

\* a run that registered a name twice and still generated its code
C4_Witness ==
  /\ DuplicateRegistered
  /\ drv_pc = "complete"
  /\ artifacts = GeneratedFiles
  /\ Len(added) < Len(log)

\* C5 as stated: a run that has failed has created neither the destination
\* directory nor any generated file.
C5_AllOrNothing ==
  drv_pc = "failed" => (~dir_created /\ artifacts = {})

\* C5 amended: a run that failed in a derivation (or in creating the
\* directory) has put nothing on disk; a run that failed later, on a
\* rejected option or in the generator, leaves the destination directory in
\* place, and only a failure of the generator itself can leave a file.
C5_FailureLeavesDirectory ==
  drv_pc = "failed" =>
    /\ failed_at \in { "derive", "mkdir" } => (~dir_created /\ artifacts = {})
    /\ failed_at \in { "options", "generate" } => dir_exists
    /\ failed_at = "options" => artifacts = {}

\* the generator failed in a run that had created the directory
C5_Witness ==
  /\ drv_pc = "failed"
  /\ failed_at = "generate"
  /\ dir_created

(***************************************************************************)
(* Properties of the stick mappers (SpecJoy)                               *)
(***************************************************************************)
\* C6: for every stick input and current orientation, the Euler set point
\* (yaw, pitch, roll) that joy_position converts to q_r equals the one that
\* joy_auto_level converts to q_r.
C6_SameScaling ==
  (auto_level # << >> /\ position_hold # << >>) =>
    position_hold.euler_r = auto_level.euler_r

(***************************************************************************)
(* Properties of position_control (SpecPos)                                *)
(***************************************************************************)
PosDone == pos_pc = "done"
PosCameraYaw == pos_in.qc_wb.euler[1]
\* p_w = pt_w, R(q_wb) v_b = vt_w and at_w = 0
PosHover ==
  /\ pos_in.p_w = pos_in.pt_w
  /\ MatVec(SO3Quat_to_Matrix(pos_in.q_wb), pos_in.v_b) = pos_in.vt_w
  /\ pos_in.at_w = Vec(0, 0, 0)

\* C7: in the hover case (p_w = pt_w, R(q_wb) v_b = vt_w, at_w = 0) the
\* thrust magnitude nT is the trim value 0.5, zB is world-up and the desired
\* frame is the yaw rotation by the camera yaw: xB = (cos, sin, 0),
\* yB = (-sin, cos, 0).
C7_Hover ==
  (PosDone /\ PosHover) =>
    /\ pos_out.nT = Rat(1, 2)
    /\ pos_out.zB = Vec(0, 0, 1)
    /\ pos_out.xB = << PosCameraYaw.cos, PosCameraYaw.sin, Zero >>
    /\ pos_out.yB = << RNeg(PosCameraYaw.sin), PosCameraYaw.cos, Zero >>

\* a hover away from the origin, moving, with the body turned over and the
\* camera yawed off the axes
C7_Witness ==
  /\ PosDone
  /\ PosHover
  /\ pos_in.p_w # Vec(0, 0, 0)
  /\ pos_in.v_b # Vec(0, 0, 0)
  /\ pos_in.q_wb # << One, Zero, Zero, Zero >>
  /\ PosCameraYaw.cos = Rat(3, 5)

PosCapSq == Rat(9, 100)

\* C9: the clamped thrust term has 2-norm at most 0.3; when the 2-norm of
\* the term exceeds 0.3 the result is the term times cap/|term| (parallel to
\* it, same sense, norm exactly 0.3); otherwise the term is unchanged.
C9_MagnitudeClamp ==
  PosDone =>
    /\ RLe(Norm2Sq(pos_out.p_term), PosCapSq)
    /\ RGt(Norm2Sq(pos_out.p_raw), PosCapSq) =>
         /\ cross(pos_out.p_term, pos_out.p_raw) = Vec(0, 0, 0)
         /\ RGt(Dot(pos_out.p_term, pos_out.p_raw), Zero)
         /\ Norm2Sq(pos_out.p_term) = PosCapSq
         /\ pos_out.p_term =
              VScale(RDiv(Rat(3, 10), RSqrt(Norm2Sq(pos_out.p_raw))), pos_out.p_raw)
    /\ RLe(Norm2Sq(pos_out.p_raw), PosCapSq) => pos_out.p_term = pos_out.p_raw

\* a term with a lateral part whose norm exceeds the cap
C9_Witness ==
  /\ PosDone
  /\ RGt(Norm2Sq(pos_out.p_raw), PosCapSq)
  /\ pos_out.p_raw[1] # Zero
  /\ pos_out.p_raw[3] # Zero

\* C10: the thrust magnitude satisfies 0.2 <= nT <= 0.8, so nT > 1e-3 and
\* zB is T/nT, never the world-up fallback.
C10_ThrustRange ==
  PosDone =>
    /\ RMul(pos_out.nT, pos_out.nT) = Norm2Sq(pos_out.T)
    /\ RLe(Rat(2, 10), pos_out.nT)
    /\ RLe(pos_out.nT, Rat(8, 10))
    /\ RGt(pos_out.nT, Rat(1, 1000))
    /\ ~pos_out.zB_fallback
    /\ pos_out.zB = VDivS(pos_out.T, pos_out.nT)

\* the thrust term points straight down and is cut to the cap: nT = 0.2
C10_Witness ==
  /\ PosDone
  /\ pos_out.nT = Rat(2, 10)
  /\ RGt(Norm2Sq(pos_out.p_raw), PosCapSq)
  /\ pos_out.p_raw[3][1] < 0

====
